---- MODULE Spec2Model ----
(***************************************************************************)
(* Radio coverage estimation (GerGrid1).                                   *)
(*                                                                         *)
(*   generate_arcgis_coverage.py : grid generation, planar distance with   *)
(*       its 0.01 km floor, Hata path loss with the Okahamaru error term,  *)
(*       environment bands, per-tower aggregation and column ordering.     *)
(*   radio_coverage_ub.py : OSM acquisition, tower height extraction and   *)
(*       the main workflow that ends in predict_coverage.                  *)
(*                                                                         *)
(* Numbers are fixed point.  Latitudes and longitudes are integers in      *)
(* units of 1/(km_per_deg*1000) degree, so that a latitude difference      *)
(* times km_per_deg is a whole number of metres.  Distances are metres     *)
(* (0.01 km = 10).  Logarithms, decibels and cosines are in thousandths.   *)
(* A floating point value that may be infinite or NaN is a record          *)
(* [k |-> "fin" | "inf" | "-inf" | "nan", v |-> thousandths].              *)
(***************************************************************************)
EXTENDS Integers, Sequences, FiniteSets, TLC

VARIABLES
    towers,             \* the configured tower list (generate_arcgis_coverage_csv)
    towers2,            \* the tower list of a second run: same but for the powers
    grid_size,          \* grid_size argument of generate_coverage_grid
    area_km,            \* area_km argument of generate_coverage_grid
    grid_lats,          \* first matrix returned by generate_coverage_grid
    grid_lons,          \* second matrix returned by generate_coverage_grid
    all_coverage_data,  \* the aggregated list of records
    all_coverage_data2, \* the aggregated list of the second run
    df,                 \* the exported data frame: columns and rows
    t,                  \* towers processed so far by the loop over towers
    pc,                 \* position in generate_arcgis_coverage_csv
    err,                \* the exception that ended the run, "" when none
    main_pc,            \* position in main() of radio_coverage_ub
    osm_data,           \* result of download_osm_data
    buildings,          \* result of extract_buildings
    tower_data,         \* dict returned by download_tower_data
    report_heights,     \* tower_heights as main() holds it
    coverage,           \* result of predict_coverage
    failed,             \* acquisition steps that failed in this run of main
    tower,              \* the feature extract_tower_heights is processing
    tower_heights,      \* list built by extract_tower_heights
    n_rows,             \* features processed so far by extract_tower_heights
    tower_type,         \* index of the dict key whose frame is being iterated
    h_pc                \* position in extract_tower_heights: "iter" or "body"

vars == <<towers, towers2, grid_size, area_km, grid_lats, grid_lons,
          all_coverage_data, all_coverage_data2, df, t, pc, err,
          main_pc, osm_data, buildings, tower_data, report_heights, coverage,
          failed,
          tower, tower_heights, n_rows, tower_type, h_pc>>

csv_vars == <<towers, towers2, grid_size, area_km, grid_lats, grid_lons,
              all_coverage_data, all_coverage_data2, df, t, pc, err>>
main_vars == <<main_pc, osm_data, buildings, tower_data, report_heights,
               coverage, failed>>
heights_vars == <<tower, tower_heights, n_rows, tower_type, h_pc>>

(***************************************************************************)
(* Bounds of the model.                                                    *)
(***************************************************************************)
MaxTowers == 6
MaxGrid == 3
MaxFeatures == 2
MaxLevels == 1
PredictGrid == 3

(***************************************************************************)
(* Fixed point arithmetic.                                                 *)
(***************************************************************************)
km_per_deg == 111

Sgn(x) == IF x < 0 THEN -1 ELSE IF x > 0 THEN 1 ELSE 0

RECURSIVE Pow2(_)
Pow2(k) == IF k = 0 THEN 1 ELSE 2 * Pow2(k - 1)

RECURSIVE FloorLog2(_)
FloorLog2(n) == IF n < 2 THEN 0 ELSE 1 + FloorLog2(n \div 2)

\* Fraction bits of log2 of a mantissa m/4096 in [1, 2), by repeated squaring.
RECURSIVE FracBits(_, _)
FracBits(m, bits) ==
    IF bits = 0 THEN 0
    ELSE LET sq == (m * m) \div 4096
         IN  IF sq >= 8192 THEN Pow2(bits - 1) + FracBits(sq \div 2, bits - 1)
             ELSE FracBits(sq, bits - 1)

\* 1000 * log10(n) for an integer n >= 1.
Log10Milli(n) ==
    LET e == FloorLog2(n)
        m == IF e <= 12 THEN n * Pow2(12 - e) ELSE n \div Pow2(e - 12)
    IN  ((e * 1024 + FracBits(m, 10)) * 30103) \div 102400

\* Floor of the square root, by bisection.
RECURSIVE SqrtBetween(_, _, _)
SqrtBetween(n, lo, hi) ==
    IF hi - lo <= 1 THEN lo
    ELSE LET mid == (lo + hi) \div 2
         IN  IF mid * mid <= n THEN SqrtBetween(n, mid, hi)
             ELSE SqrtBetween(n, lo, mid)

ISqrt(n) == SqrtBetween(n, 0, 46341)

\* 1000 * cos(radians(lat)), lat in position units, by the Taylor series.
CosMilli(lat) ==
    LET mdeg == lat \div km_per_deg
        x    == (mdeg * 3142) \div 180000
        x2   == (x * x) \div 1000
        x4   == (x2 * x2) \div 1000
        x6   == (x4 * x2) \div 1000
    IN  1000 - x2 \div 2 + x4 \div 24 - x6 \div 720

(***************************************************************************)
(* IEEE values: finite, infinite or NaN.                                   *)
(***************************************************************************)
Fin(v) == [k |-> "fin", v |-> v]
PInf == [k |-> "inf", v |-> 0]
NInf == [k |-> "-inf", v |-> 0]
NaN == [k |-> "nan", v |-> 0]

XSign(a) == IF a.k = "fin" THEN Sgn(a.v) ELSE IF a.k = "inf" THEN 1 ELSE -1

XNeg(a) ==
    CASE a.k = "fin" -> Fin(-a.v)
      [] a.k = "inf" -> NInf
      [] a.k = "-inf" -> PInf
      [] OTHER -> NaN

XAdd(a, b) ==
    CASE a.k = "nan" \/ b.k = "nan" -> NaN
      [] a.k = "fin" /\ b.k = "fin" -> Fin(a.v + b.v)
      [] a.k = "fin" -> b
      [] b.k = "fin" -> a
      [] a.k = b.k -> a
      [] OTHER -> NaN

XSub(a, b) == XAdd(a, XNeg(b))

\* Product of two values in thousandths.
XMul(a, b) ==
    CASE a.k = "nan" \/ b.k = "nan" -> NaN
      [] a.k = "fin" /\ b.k = "fin" -> Fin((a.v * b.v) \div 1000)
      [] XSign(a) * XSign(b) = 0 -> NaN
      [] XSign(a) * XSign(b) > 0 -> PInf
      [] OTHER -> NInf

\* np.log10(num/den) in thousandths, den > 0: -inf at 0, NaN below 0.
Log10X(num, den) ==
    IF num = 0 THEN NInf
    ELSE IF num < 0 THEN NaN
    ELSE Fin(Log10Milli(num) - Log10Milli(den))

(***************************************************************************)
(* generate_arcgis_coverage.py                                             *)
(***************************************************************************)
Range(s) == {s[k] : k \in 1..Len(s)}

\* The receiver height 1.5 m, in thousandths.
rx_height == 1500

\* The distance floor 0.01 km, in metres.
distance_floor == 10

\* The band edges 2 km and 5 km, in metres.
urban_limit == 2000
suburban_limit == 5000

\* center_lat, center_lon = 47.9212, 106.9186 in position units.
center_lat == 5319253
center_lon == 11867965

\* Path loss and Okahamaru error in thousandths of a dB, as a pair.
hata_okahamaru_model(tx_height, rx_h, freq_mhz, distance_km) ==
    LET lf == Log10X(freq_mhz, 1)
        lh == Log10X(tx_height, 1)
        ld == Log10X(distance_km, 1000)
        a_hm == XSub(XMul(XSub(XMul(Fin(1100), lf), Fin(700)), Fin(rx_h)),
                     XSub(XMul(Fin(1560), lf), Fin(800)))
        L_hata == XAdd(XSub(XSub(XAdd(Fin(69550), XMul(Fin(26160), lf)),
                                 XMul(Fin(13820), lh)),
                            a_hm),
                       XMul(XSub(Fin(44900), XMul(Fin(6550), lh)), ld))
        okahamaru_error == XAdd(XAdd(Fin(2000), XMul(Fin(500), ld)),
                                XMul(Fin(300), Log10X(freq_mhz, 900)))
    IN  <<L_hata, okahamaru_error>>

\* np.linspace(start, stop, num) for num >= 0.
linspace(start, stop, num) ==
    [k \in 1..num |->
        IF num = 1 THEN start
        ELSE IF k = num THEN stop
        ELSE start + ((k - 1) * (stop - start)) \div (num - 1)]

\* np.meshgrid(xs, ys): two matrices of Len(ys) rows and Len(xs) columns.
meshgrid(xs, ys) ==
    << [i \in 1..Len(ys) |-> [j \in 1..Len(xs) |-> xs[j]]],
       [i \in 1..Len(ys) |-> [j \in 1..Len(xs) |-> ys[i]]] >>

\* The grid, or the ValueError np.linspace raises for a negative num.
generate_coverage_grid(c_lat, c_lon, size, area) ==
    LET dlat == area * 1000
        dlon == (area * 1000 * 1000) \div CosMilli(c_lat)
    IN  IF size < 0 THEN [error |-> "ValueError", grid |-> << <<>>, <<>> >>]
        ELSE [error |-> "",
              grid |-> meshgrid(
                  linspace(c_lat - dlat \div 2, c_lat + dlat \div 2, size),
                  linspace(c_lon - dlon \div 2, c_lon + dlon \div 2, size))]

\* sqrt(dlat^2 + dlon^2) in metres, before the floor.
RawDistance(lat, lon, tower_lat, tower_lon) ==
    LET dlat == lat - tower_lat
        dlon == ((lon - tower_lon) * CosMilli(tower_lat)) \div 1000
    IN  ISqrt(dlat * dlat + dlon * dlon)

NoFloor(d) == d

ClampDistance(d) == IF d < distance_floor THEN distance_floor ELSE d

EnvTypeUpperInclusive(distance_km) ==
    IF distance_km <= urban_limit THEN "Urban"
    ELSE IF distance_km <= suburban_limit THEN "Suburban"
    ELSE "Rural"

EnvType(distance_km) ==
    IF distance_km < urban_limit THEN "Urban"
    ELSE IF distance_km < suburban_limit THEN "Suburban"
    ELSE "Rural"

CoveragePointErrorFolded(lat, lon, tower_lat, tower_lon, tower_height, tx_power, freq_mhz) ==
    LET distance_km == ClampDistance(RawDistance(lat, lon, tower_lat, tower_lon))
        model == hata_okahamaru_model(tower_height, rx_height, freq_mhz, distance_km)
    IN  [Latitude |-> lat, Longitude |-> lon, Distance_km |-> distance_km,
         Path_Loss_dB |-> model[1],
         Signal_Strength_dBm |-> XSub(XSub(Fin(tx_power * 1000), model[1]), model[2]),
         Okahamaru_Error_dB |-> model[2],
         Environment_Type |-> EnvType(distance_km)]

CoveragePointErrorOfPower(lat, lon, tower_lat, tower_lon, tower_height, tx_power, freq_mhz) ==
    LET distance_km == ClampDistance(RawDistance(lat, lon, tower_lat, tower_lon))
        model == hata_okahamaru_model(tower_height, rx_height, freq_mhz, distance_km)
    IN  [Latitude |-> lat, Longitude |-> lon, Distance_km |-> distance_km,
         Path_Loss_dB |-> model[1],
         Signal_Strength_dBm |-> XSub(Fin(tx_power * 1000), model[1]),
         Okahamaru_Error_dB |-> XAdd(model[2], Fin(tx_power)),
         Environment_Type |-> EnvType(distance_km)]

\* One iteration of the loop body of calculate_coverage_for_tower.
CoveragePoint(lat, lon, tower_lat, tower_lon, tower_height, tx_power, freq_mhz) ==
    LET distance_km == ClampDistance(RawDistance(lat, lon, tower_lat, tower_lon))
        model == hata_okahamaru_model(tower_height, rx_height, freq_mhz, distance_km)
        path_loss == model[1]
        rx_power == XSub(Fin(tx_power * 1000), path_loss)
    IN  [Latitude |-> lat, Longitude |-> lon, Distance_km |-> distance_km,
         Path_Loss_dB |-> path_loss,
         Signal_Strength_dBm |-> rx_power,
         Okahamaru_Error_dB |-> model[2],
         Environment_Type |-> EnvType(distance_km)]

NumRows(g_lats) == Len(g_lats)
NumCols(g_lats) == IF Len(g_lats) = 0 THEN 0 ELSE Len(g_lats[1])

calculate_coverage_column_major(tower_lat, tower_lon, tower_height, tx_power, freq_mhz, g_lats, g_lons) ==
    LET rows == NumRows(g_lats)
        cols == NumCols(g_lats)
    IN  [n \in 1..(rows * cols) |->
            LET j == ((n - 1) \div rows) + 1
                i == ((n - 1) % rows) + 1
            IN  CoveragePoint(g_lats[i][j], g_lons[i][j], tower_lat, tower_lon,
                              tower_height, tx_power, freq_mhz)]

\* for i in range(len(grid_lats)): for j in range(len(grid_lats[0])): append.
calculate_coverage_for_tower(tower_lat, tower_lon, tower_height, tx_power, freq_mhz, g_lats, g_lons) ==
    LET rows == NumRows(g_lats)
        cols == NumCols(g_lats)
    IN  [n \in 1..(rows * cols) |->
            LET i == ((n - 1) \div cols) + 1
                j == ((n - 1) % cols) + 1
            IN  CoveragePoint(g_lats[i][j], g_lons[i][j], tower_lat, tower_lon,
                              tower_height, tx_power, freq_mhz)]

\* point.update({...}) with the tower's fields.
TowerInfo(point, tw) ==
    [Tower_Lat |-> tw.lat, Tower_Lon |-> tw.lon, Tower_Height_m |-> tw.height,
     Tower_Power_dBm |-> tw.power, Frequency_MHz |-> tw.freq, Cell_ID |-> tw.id,
     Tower_Type |-> tw.type, Model_Type |-> "Hata_Okahamaru"] @@ point

\* The coverage of one tower with the tower's fields added to each point.
TowerBlock(tw, g_lats, g_lons) ==
    LET coverage_data == calculate_coverage_for_tower(
            tw.lat, tw.lon, tw.height, tw.power, tw.freq, g_lats, g_lons)
    IN  [n \in 1..Len(coverage_data) |-> TowerInfo(coverage_data[n], tw)]

column_order_swapped ==
    << "Latitude", "Longitude", "Tower_Lat", "Tower_Lon", "Tower_Height_m",
       "Tower_Power_dBm", "Frequency_MHz", "Path_Loss_dB", "Distance_km",
       "Signal_Strength_dBm", "Okahamaru_Error_dB", "Cell_ID", "Tower_Type",
       "Environment_Type", "Model_Type" >>

column_order ==
    << "Latitude", "Longitude", "Tower_Lat", "Tower_Lon", "Tower_Height_m",
       "Tower_Power_dBm", "Frequency_MHz", "Distance_km", "Path_Loss_dB",
       "Signal_Strength_dBm", "Okahamaru_Error_dB", "Cell_ID", "Tower_Type",
       "Environment_Type", "Model_Type" >>

\* pd.DataFrame(data)[column_order]: a KeyError when a column is in no record.
DataFrame(data) ==
    LET columns == UNION {DOMAIN data[n] : n \in 1..Len(data)}
    IN  IF \E c \in Range(column_order) : c \notin columns
        THEN [error |-> "KeyError", columns |-> <<>>, rows |-> <<>>]
        ELSE [error |-> "",
              columns |-> column_order,
              rows |-> [n \in 1..Len(data) |->
                          [c \in Range(column_order) |->
                              IF c \in DOMAIN data[n] THEN data[n][c] ELSE NaN]]]

NoFrame == [error |-> "", columns |-> <<>>, rows |-> <<>>]

(***************************************************************************)
(* Configurations the aggregator is run on.                                *)
(***************************************************************************)
TowerIds == << "TOWER_001", "TOWER_002", "TOWER_003", "TOWER_004", "TOWER_005",
               "TOWER_006", "TOWER_007", "TOWER_008", "TOWER_009", "TOWER_010" >>

\* Towers a configuration is drawn from: on the centre, 1 m and 10 m north of
\* it, 3 km north of it, and towers with a height or frequency that is not
\* positive.
TowerChoices ==
    << [lat |-> center_lat, lon |-> center_lon, height |-> 30, power |-> 43,
        freq |-> 900, type |-> "Communication_Tower"],
       [lat |-> center_lat + 1, lon |-> center_lon, height |-> 25, power |-> 40,
        freq |-> 900, type |-> "Antenna"],
       [lat |-> center_lat + 3000, lon |-> center_lon, height |-> 35, power |-> 45,
        freq |-> 1800, type |-> "Communication_Tower"],
       [lat |-> center_lat + 3001, lon |-> center_lon, height |-> 0, power |-> 38,
        freq |-> 900, type |-> "Antenna"],
       [lat |-> center_lat + 10, lon |-> center_lon, height |-> 20, power |-> 47,
        freq |-> 0, type |-> "Communication_Tower"],
       [lat |-> center_lat, lon |-> center_lon + 500, height |-> -5, power |-> 42,
        freq |-> 900, type |-> "Antenna"],
       [lat |-> center_lat - 1999, lon |-> center_lon, height |-> 32, power |-> 44,
        freq |-> 900, type |-> "Communication_Tower"],
       [lat |-> center_lat + 422, lon |-> center_lon + 155, height |-> 22, power |-> 39,
        freq |-> 900, type |-> "Antenna"] >>

PowerShifts == {-5, 3}
AreaChoices == {4, 10}

\* The towers of TowerChoices whose index is in S, in order.
RECURSIVE Chosen(_, _)
Chosen(S, k) ==
    IF k > Len(TowerChoices) THEN <<>>
    ELSE (IF k \in S THEN <<TowerChoices[k]>> ELSE <<>>) \o Chosen(S, k + 1)

WithId(params, k) == [id |-> TowerIds[k]] @@ params

UnusedMain ==
    /\ main_pc = "unused"
    /\ osm_data = <<>>
    /\ buildings = <<>>
    /\ tower_data = <<>>
    /\ report_heights = <<>>
    /\ coverage = <<>>
    /\ failed = {}

UnusedHeights ==
    /\ tower = <<>>
    /\ tower_heights = <<>>
    /\ n_rows = 0
    /\ tower_type = 0
    /\ h_pc = "unused"

UnusedCsv ==
    /\ towers = <<>>
    /\ towers2 = <<>>
    /\ grid_size = 0
    /\ area_km = 0
    /\ grid_lats = <<>>
    /\ grid_lons = <<>>
    /\ all_coverage_data = <<>>
    /\ all_coverage_data2 = <<>>
    /\ df = NoFrame
    /\ t = 0
    /\ pc = "unused"
    /\ err = ""

Init ==
    /\ \E S \in SUBSET (1..MaxTowers), shift \in PowerShifts :
         LET ps == Chosen(S, 1)
         IN  /\ towers = [k \in 1..Len(ps) |-> WithId(ps[k], k)]
             /\ towers2 = [k \in 1..Len(ps) |->
                             [WithId(ps[k], k) EXCEPT !.power = @ + shift]]
    /\ grid_size \in -1..MaxGrid
    /\ area_km \in AreaChoices
    /\ grid_lats = <<>>
    /\ grid_lons = <<>>
    /\ all_coverage_data = <<>>
    /\ all_coverage_data2 = <<>>
    /\ df = NoFrame
    /\ t = 0
    /\ pc = "grid"
    /\ err = ""
    /\ UnusedMain
    /\ UnusedHeights

\* grid_lats, grid_lons = generate_coverage_grid(center_lat, center_lon, ...)
GenerateCoverageGrid ==
    /\ pc = "grid"
    /\ LET r == generate_coverage_grid(center_lat, center_lon, grid_size, area_km)
       IN  IF r.error # ""
           THEN /\ pc' = "error"
                /\ err' = r.error
                /\ UNCHANGED <<grid_lats, grid_lons>>
           ELSE /\ pc' = "towers"
                /\ grid_lats' = r.grid[1]
                /\ grid_lons' = r.grid[2]
                /\ err' = err
    /\ UNCHANGED <<towers, towers2, grid_size, area_km, all_coverage_data,
                   all_coverage_data2, df, t>>
    /\ UNCHANGED <<main_vars, heights_vars>>

\* One iteration of "for tower in towers", in both runs.
CoverageForTower ==
    /\ pc = "towers"
    /\ t < Len(towers)
    /\ all_coverage_data' =
           all_coverage_data \o TowerBlock(towers[t + 1], grid_lats, grid_lons)
    /\ all_coverage_data2' =
           all_coverage_data2 \o TowerBlock(towers2[t + 1], grid_lats, grid_lons)
    /\ t' = t + 1
    /\ UNCHANGED <<towers, towers2, grid_size, area_km, grid_lats, grid_lons,
                   df, pc, err>>
    /\ UNCHANGED <<main_vars, heights_vars>>

\* df = pd.DataFrame(all_coverage_data); df = df[column_order]; df.to_csv(...)
ExportCsv ==
    /\ pc = "towers"
    /\ t = Len(towers)
    /\ LET frame == DataFrame(all_coverage_data)
       IN  IF frame.error # ""
           THEN /\ pc' = "error"
                /\ err' = frame.error
                /\ df' = df
           ELSE /\ pc' = "done"
                /\ df' = frame
                /\ err' = err
    /\ UNCHANGED <<towers, towers2, grid_size, area_km, grid_lats, grid_lons,
                   all_coverage_data, all_coverage_data2, t>>
    /\ UNCHANGED <<main_vars, heights_vars>>

Next == GenerateCoverageGrid \/ CoverageForTower \/ ExportCsv

Spec == Init /\ [][Next]_vars

(***************************************************************************)
(* Properties of generate_arcgis_coverage.py, checked under Spec.          *)
(***************************************************************************)
Records == {all_coverage_data[n] : n \in 1..Len(all_coverage_data)}
CellCount == grid_size * grid_size

\* C1: the Distance_km of every record is at least 0.01 km (10 m); it is
\* exactly 0.01 km when the raw planar distance is below 0.01 km, and the raw
\* distance unchanged otherwise.
C1_DistanceFloor ==
    \A r \in Records :
        LET raw == RawDistance(r.Latitude, r.Longitude, r.Tower_Lat, r.Tower_Lon)
        IN  /\ r.Distance_km >= 10
            /\ raw < 10 => r.Distance_km = 10
            /\ raw >= 10 => r.Distance_km = raw

\* A grid point on the tower, one 1 m from it and one kilometres away.
C1_Witness ==
    /\ \E r \in Records :
          /\ r.Latitude = r.Tower_Lat /\ r.Longitude = r.Tower_Lon
          /\ r.Distance_km = 10
    /\ \E r \in Records :
          /\ RawDistance(r.Latitude, r.Longitude, r.Tower_Lat, r.Tower_Lon) = 1
          /\ r.Distance_km = 10
    /\ \E r \in Records :
          /\ RawDistance(r.Latitude, r.Longitude, r.Tower_Lat, r.Tower_Lon) = 10
          /\ r.Distance_km = 10
    /\ \E r \in Records : r.Distance_km > 2000

\* C2: a tower whose height or frequency is not positive is rejected when the
\* path-loss model is reached for it (the grid has points): the run ends in an
\* error and the dataset holds no record of that tower.
C2_NonPositiveRejected ==
    \A k \in 1..t :
        ((towers[k].height <= 0 \/ towers[k].freq <= 0) /\ CellCount > 0)
            => /\ pc = "error"
               /\ \A r \in Records : r.Cell_ID # towers[k].id

\* C3: after t towers the dataset holds t * N^2 records, and the record at
\* index tt*N^2 + i*N + j is that of tower tt and of cell (i, j) of the
\* coordinate matrices; the exported rows are the same records in that order.
C3_TowerMajorRowMajor ==
    (grid_size >= 0 /\ pc # "grid") =>
        /\ Len(all_coverage_data) = t * CellCount
        /\ \A tt \in 0..(t - 1), i \in 0..(grid_size - 1), j \in 0..(grid_size - 1) :
              LET r == all_coverage_data[tt * CellCount + i * grid_size + j + 1]
              IN  /\ r.Cell_ID = towers[tt + 1].id
                  /\ r.Tower_Lat = towers[tt + 1].lat
                  /\ r.Latitude = grid_lats[i + 1][j + 1]
                  /\ r.Longitude = grid_lons[i + 1][j + 1]
        /\ pc = "done" =>
              /\ t = Len(towers)
              /\ Len(df.rows) = Len(towers) * CellCount
              /\ \A n \in 1..Len(df.rows) :
                    /\ df.rows[n].Cell_ID = all_coverage_data[n].Cell_ID
                    /\ df.rows[n].Latitude = all_coverage_data[n].Latitude
                    /\ df.rows[n].Longitude = all_coverage_data[n].Longitude

\* Three towers on a 3 x 3 grid, exported.
C3_Witness ==
    /\ pc = "done"
    /\ Len(towers) >= 3
    /\ grid_size = 3
    /\ Len(df.rows) = 9 * Len(towers)

\* C4: in every record the signal strength is the power of the record's tower
\* minus the record's path loss, and the error estimate is not part of it.
C4_SignalIsPowerMinusLoss ==
    /\ \A n \in 1..Len(all_coverage_data) :
          LET r == all_coverage_data[n]
          IN  /\ r.Signal_Strength_dBm
                    = XSub(Fin(r.Tower_Power_dBm * 1000), r.Path_Loss_dB)
              /\ CellCount > 0 =>
                    r.Tower_Power_dBm = towers[((n - 1) \div CellCount) + 1].power
    /\ \A n \in 1..Len(df.rows) :
          df.rows[n].Signal_Strength_dBm
              = XSub(Fin(df.rows[n].Tower_Power_dBm * 1000), df.rows[n].Path_Loss_dB)

\* An exported record with a finite path loss and an error estimate that is
\* not zero.
C4_Witness ==
    /\ pc = "done"
    /\ \E n \in 1..Len(df.rows) :
          /\ df.rows[n].Path_Loss_dB.k = "fin"
          /\ df.rows[n].Okahamaru_Error_dB.k = "fin"
          /\ df.rows[n].Okahamaru_Error_dB.v # 0
          /\ df.rows[n].Signal_Strength_dBm.k = "fin"

\* C5: the environment of a record follows from its distance alone: below
\* 2 km Urban, from 2 km to below 5 km Suburban, from 5 km on Rural.
C5_EnvironmentBands ==
    \A r \in Records :
        /\ (r.Distance_km < 2000) => r.Environment_Type = "Urban"
        /\ (r.Distance_km >= 2000 /\ r.Distance_km < 5000)
              => r.Environment_Type = "Suburban"
        /\ (r.Distance_km >= 5000) => r.Environment_Type = "Rural"

\* Records at 1.999, 2.0, 4.999 and 5.0 km in one dataset.
C5_Witness ==
    /\ \E r \in Records : r.Distance_km = 1999 /\ r.Environment_Type = "Urban"
    /\ \E r \in Records : r.Distance_km = 2000 /\ r.Environment_Type = "Suburban"
    /\ \E r \in Records : r.Distance_km = 4999 /\ r.Environment_Type = "Suburban"
    /\ \E r \in Records : r.Distance_km = 5000 /\ r.Environment_Type = "Rural"

SpecFields ==
    << "Latitude", "Longitude", "Tower_Lat", "Tower_Lon", "Tower_Height_m",
       "Tower_Power_dBm", "Frequency_MHz", "Distance_km", "Path_Loss_dB",
       "Signal_Strength_dBm", "Error_dB", "Cell_ID", "Tower_Type",
       "Environment_Type", "Model_Type" >>

CodeFields ==
    << "Latitude", "Longitude", "Tower_Lat", "Tower_Lon", "Tower_Height_m",
       "Tower_Power_dBm", "Frequency_MHz", "Distance_km", "Path_Loss_dB",
       "Signal_Strength_dBm", "Okahamaru_Error_dB", "Cell_ID", "Tower_Type",
       "Environment_Type", "Model_Type" >>

\* C6 as stated: the exported records have the 15 fields of the
\* specification, the eleventh named Error_dB, in that order.
C6_SpecFieldNames ==
    pc = "done" =>
        /\ df.columns = SpecFields
        /\ \A n \in 1..Len(df.rows) : DOMAIN df.rows[n] = Range(SpecFields)

\* C6 amended: the exported records have exactly 15 fields, in the order of
\* the specification, the eleventh named Okahamaru_Error_dB; the aggregated
\* records carry the same field set.
C6_CodeFieldNames ==
    /\ pc = "done" =>
          /\ df.columns = CodeFields
          /\ Len(df.columns) = 15
          /\ \A n \in 1..Len(df.rows) : DOMAIN df.rows[n] = Range(CodeFields)
    /\ \A r \in Records : DOMAIN r = Range(CodeFields)

\* An exported frame with rows.
C6_Witness ==
    /\ pc = "done"
    /\ Len(df.rows) > 0
    /\ Len(df.columns) = 15

\* C8: two runs whose tower lists differ in the powers only produce records
\* that agree in every field but Tower_Power_dBm and Signal_Strength_dBm.
C8_ErrorIndependentOfPower ==
    /\ Len(all_coverage_data2) = Len(all_coverage_data)
    /\ \A n \in 1..Len(all_coverage_data) :
          LET r1 == all_coverage_data[n]
              r2 == all_coverage_data2[n]
          IN  /\ r1.Okahamaru_Error_dB = r2.Okahamaru_Error_dB
              /\ r1.Distance_km = r2.Distance_km
              /\ r1.Path_Loss_dB = r2.Path_Loss_dB
              /\ r1.Environment_Type = r2.Environment_Type
              /\ \A c \in DOMAIN r1 \ {"Tower_Power_dBm", "Signal_Strength_dBm"} :
                    r1[c] = r2[c]

\* Both runs finished, with records whose powers and signal strengths differ.
C8_Witness ==
    /\ pc = "done"
    /\ \E n \in 1..Len(all_coverage_data) :
          /\ all_coverage_data[n].Tower_Power_dBm
                # all_coverage_data2[n].Tower_Power_dBm
          /\ all_coverage_data[n].Signal_Strength_dBm
                # all_coverage_data2[n].Signal_Strength_dBm
          /\ all_coverage_data[n].Okahamaru_Error_dB.k = "fin"

\* C9: a grid size that is not positive makes generate_coverage_grid fail, so
\* no grid is returned and the loop over the towers is never entered.
C9_NonPositiveGridRejected ==
    (grid_size <= 0 /\ pc # "grid") =>
        /\ pc = "error"
        /\ err = "ValueError"
        /\ t = 0

(***************************************************************************)
(* radio_coverage_ub.py: extract_tower_heights                             *)
(*                                                                         *)
(* A tag value of a feature is [kind, v]: "absent" (the frame has no such  *)
(* column), "none" (None), "nan" (the float NaN pandas stores for a        *)
(* missing cell), "text" (a value float() raises ValueError or TypeError   *)
(* on) or "num" (a number, or a string float() parses, of value v).        *)
(* A height is a value Fin(metres) or NaN.                                 *)
(***************************************************************************)
height_tags == << "height", "building:height", "tower:height", "ele" >>
levels_tag == "building:levels"
AllTags == Range(height_tags) \cup {levels_tag}

Absent == [kind |-> "absent", v |-> 0]
None == [kind |-> "none", v |-> 0]
NanCell == [kind |-> "nan", v |-> 0]
Text == [kind |-> "text", v |-> 0]
Num(v) == [kind |-> "num", v |-> v]

\* tag in tower and tower[tag] is not None
Present(cell) == cell.kind \notin {"absent", "none"}

\* float(cell) returns instead of raising.
FloatOk(cell) == cell.kind \in {"num", "nan"}

\* float(cell), where it returns.
Float(cell) == IF cell.kind = "nan" THEN NaN ELSE Fin(cell.v)

\* for tag in height_tags: the first tag from position k on that is present
\* and converts, 0 when there is none.
RECURSIVE FirstHeightTag(_, _)
FirstHeightTag(tw, k) ==
    IF k > Len(height_tags) THEN 0
    ELSE IF Present(tw.tags[height_tags[k]]) /\ FloatOk(tw.tags[height_tags[k]])
         THEN k
         ELSE FirstHeightTag(tw, k + 1)

HeightInfoBase(ty, tw) ==
    [type |-> ty, geometry |-> tw.geometry,
     coordinates |-> <<tw.geometry.y, tw.geometry.x>>]

HeightInfoUnflagged(ty, tw) ==
    LET base == HeightInfoBase(ty, tw)
        k == FirstHeightTag(tw, 1)
        lv == tw.tags[levels_tag]
    IN  IF k # 0
        THEN [height_m |-> Float(tw.tags[height_tags[k]])] @@ base
        ELSE IF Present(lv) /\ FloatOk(lv)
             THEN [height_m |-> XMul(Float(lv), Fin(3000))] @@ base
             ELSE base

\* The body of "for idx, tower in tower_data.iterrows()": the height_info
\* dict built for one feature, with or without the key height_m.
HeightInfo(ty, tw) ==
    LET base == HeightInfoBase(ty, tw)
        k == FirstHeightTag(tw, 1)
        lv == tw.tags[levels_tag]
    IN  IF k # 0
        THEN [height_m |-> Float(tw.tags[height_tags[k]])] @@ base
        ELSE IF Present(lv) /\ FloatOk(lv)
             THEN [height_m |-> XMul(Float(lv), Fin(3000)), estimated |-> TRUE] @@ base
             ELSE base

\* if 'height_m' in height_info: tower_heights.append(height_info)
AppendIfHeight(heights, info) ==
    IF "height_m" \in DOMAIN info THEN Append(heights, info) ELSE heights

\* The keys download_tower_data stores frames under, grouped by tag key, in
\* the order of tower_tags.
tower_tags ==
    << << "tower_True" >>,
       << "man_made_tower", "man_made_communications_tower", "man_made_antenna" >>,
       << "building_tower", "building_communications_tower" >>,
       << "amenity_telephone" >> >>

QueryNames == tower_tags[1] \o tower_tags[2] \o tower_tags[3] \o tower_tags[4]

\* The values a cell of a height column, and of the levels column, may hold.
HeightCells(k) == {Absent, None, NanCell, Text, Num(10 * k + 2)}
LevelCells == {Absent, None, NanCell, Text} \cup {Num(l) : l \in 1..MaxLevels}

Features(n) ==
    { [tags |-> (levels_tag :> lv) @@ (height_tags[1] :> h1) @@ (height_tags[2] :> h2)
                 @@ (height_tags[3] :> h3) @@ (height_tags[4] :> h4),
       geometry |-> [y |-> center_lat + n, x |-> center_lon]] :
         h1 \in HeightCells(1), h2 \in HeightCells(2), h3 \in HeightCells(3),
         h4 \in HeightCells(4), lv \in LevelCells }

NoRow == [tags |-> [tg \in AllTags |-> Absent], geometry |-> [y |-> 0, x |-> 0]]

\* The dict keys extract_tower_heights is run on.
TypeCount == 2

InitHeights ==
    /\ tower = NoRow
    /\ tower_heights = <<>>
    /\ n_rows = 0
    /\ tower_type = 1
    /\ h_pc = "iter"
    /\ UnusedCsv
    /\ UnusedMain

\* iterrows() yields the next feature, of the current frame or of a later one.
Iterrows ==
    /\ h_pc = "iter"
    /\ n_rows < MaxFeatures
    /\ tower_type' \in tower_type..TypeCount
    /\ tower' \in Features(n_rows + 1)
    /\ n_rows' = n_rows + 1
    /\ h_pc' = "body"
    /\ UNCHANGED tower_heights
    /\ UNCHANGED <<csv_vars, main_vars>>

\* The loop body for the feature in tower; the loop variable is dead after it.
ExtractHeight ==
    /\ h_pc = "body"
    /\ tower_heights' =
           AppendIfHeight(tower_heights, HeightInfo(QueryNames[tower_type], tower))
    /\ tower' = NoRow
    /\ h_pc' = "iter"
    /\ UNCHANGED <<n_rows, tower_type>>
    /\ UNCHANGED <<csv_vars, main_vars>>

NextHeights == Iterrows \/ ExtractHeight

SpecHeights == InitHeights /\ [][NextHeights]_vars

(***************************************************************************)
(* Properties of extract_tower_heights, checked under SpecHeights.         *)
(***************************************************************************)
\* A cell is usable when it is there, is not None and float() accepts it.
Usable(cell) == cell.kind = "num" \/ cell.kind = "nan"
CellValue(cell) == IF cell.kind = "nan" THEN NaN ELSE Fin(cell.v)
UsableHeightTags(tw) == {k \in 1..4 : Usable(tw.tags[height_tags[k]])}
FirstUsable(tw) ==
    CHOOSE k \in UsableHeightTags(tw) : \A m \in UsableHeightTags(tw) : k <= m

\* The list grew by exactly one record, that of feature tw.
Reported(tw) ==
    /\ Len(tower_heights') = Len(tower_heights) + 1
    /\ SubSeq(tower_heights', 1, Len(tower_heights)) = tower_heights
    /\ tower_heights'[Len(tower_heights')].geometry = tw.geometry
    /\ "height_m" \in DOMAIN tower_heights'[Len(tower_heights')]

Outcomes == {"fail", "empty", "data"}

\* A frame a tower query returns: one feature with a height tag, one with
\* levels only, one with neither.
SampleRows ==
    << [tags |-> (levels_tag :> Absent) @@ (height_tags[1] :> Num(12))
                  @@ (height_tags[2] :> None) @@ (height_tags[3] :> Absent)
                  @@ (height_tags[4] :> NanCell),
        geometry |-> [y |-> center_lat + 422, x |-> center_lon + 155]],
       [tags |-> (levels_tag :> Num(MaxLevels)) @@ (height_tags[1] :> Text)
                  @@ (height_tags[2] :> None) @@ (height_tags[3] :> Absent)
                  @@ (height_tags[4] :> None),
        geometry |-> [y |-> center_lat - 355, x |-> center_lon - 400]],
       [tags |-> (levels_tag :> None) @@ (height_tags[1] :> None)
                  @@ (height_tags[2] :> None) @@ (height_tags[3] :> Absent)
                  @@ (height_tags[4] :> None),
        geometry |-> [y |-> center_lat, x |-> center_lon]] >>

\* The building footprints download_osm_data returns: geometry types.
SampleBuildings == << "Polygon", "Point", "Polygon" >>

\* The queries of one tag key that are made: those before the first failure,
\* and the failing one.
Made(group, resp) ==
    {i \in 1..Len(group) : \A j \in 1..(i - 1) : resp[group[j]] # "fail"}

\* The keys one tag key adds to the towers dict.
Stored(group, resp) ==
    {group[i] : i \in {m \in Made(group, resp) : resp[group[m]] = "data"}}

\* The queries of one tag key that raise.
Raised(group, resp) ==
    {group[i] : i \in {m \in Made(group, resp) : resp[group[m]] = "fail"}}

\* The towers dict: try / except around the queries of each tag key.
download_tower_data(resp) ==
    [name \in UNION {Stored(tower_tags[g], resp) : g \in 1..Len(tower_tags)}
        |-> SampleRows]

\* for tower_type, tower_data in osm_towers.items(): ... over the rows.
RECURSIVE RowHeights(_, _, _)
RowHeights(ty, rows, k) ==
    IF k > Len(rows) THEN <<>>
    ELSE AppendIfHeight(<<>>, HeightInfo(ty, rows[k])) \o RowHeights(ty, rows, k + 1)

RECURSIVE extract_from(_, _)
extract_from(osm_towers, k) ==
    IF k > Len(QueryNames) THEN <<>>
    ELSE (IF QueryNames[k] \in DOMAIN osm_towers
          THEN RowHeights(QueryNames[k], osm_towers[QueryNames[k]], 1)
          ELSE <<>>) \o extract_from(osm_towers, k + 1)

extract_tower_heights(osm_towers) == extract_from(osm_towers, 1)

\* osm_data[osm_data.geometry.type == 'Polygon']
extract_buildings(data) == SelectSeq(data, LAMBDA g : g = "Polygon")

\* The path loss of hata_model, in thousandths of a dB.
hata_model(tx_height, rx_h, freq_mhz, distance_km) ==
    LET lf == Log10X(freq_mhz, 1)
        lh == Log10X(tx_height, 1)
        ld == Log10X(distance_km, 1000)
        a_hm == XSub(XMul(XSub(XMul(Fin(1100), lf), Fin(700)), Fin(rx_h)),
                     XSub(XMul(Fin(1560), lf), Fin(800)))
    IN  XAdd(XSub(XSub(XAdd(Fin(69550), XMul(Fin(26160), lf)),
                       XMul(Fin(13820), lh)),
                  a_hm),
             XMul(XSub(Fin(44900), XMul(Fin(6550), lh)), ld))

\* The side of the square predict_coverage covers, in km.
predict_area_km == 10

\* predict_coverage on a grid of size x size points (the code's is 200 x 200).
predict_coverage(lat0, lon0, tx_height, tx_power_dbm, freq_mhz, size) ==
    LET dlat == predict_area_km * 1000
        dlon == (predict_area_km * 1000 * 1000) \div CosMilli(lat0)
        lats == linspace(lat0 - dlat \div 2, lat0 + dlat \div 2, size)
        lons == linspace(lon0 - dlon \div 2, lon0 + dlon \div 2, size)
        grids == meshgrid(lons, lats)
        lon_grid == grids[1]
        lat_grid == grids[2]
        dists == [i \in 1..size |-> [j \in 1..size |->
                    LET d == RawDistance(lat_grid[i][j], lon_grid[i][j], lat0, lon0)
                    IN  IF d < distance_floor THEN distance_floor ELSE d]]
    IN  [lat_grid |-> lat_grid,
         lon_grid |-> lon_grid,
         rx_power |-> [i \in 1..size |-> [j \in 1..size |->
                         XSub(Fin(tx_power_dbm * 1000),
                              hata_model(tx_height, rx_height, freq_mhz,
                                         dists[i][j]))]]]

NoCoverage == [lat_grid |-> <<>>, lon_grid |-> <<>>, rx_power |-> <<>>]

InitMain ==
    /\ main_pc = "download_osm"
    /\ osm_data = <<>>
    /\ buildings = <<>>
    /\ tower_data = <<>>
    /\ report_heights = <<>>
    /\ coverage = NoCoverage
    /\ failed = {}
    /\ UnusedCsv
    /\ tower = <<>>
    /\ tower_heights = <<>>
    /\ n_rows = 0
    /\ tower_type = 0
    /\ h_pc = "unused"

\* osm_data = download_osm_data(CITY_NAME): the call is not guarded, so an
\* exception of ox.geometries_from_place ends main.
DownloadOsmData ==
    /\ main_pc = "download_osm"
    /\ \E outcome \in Outcomes :
          IF outcome = "fail"
          THEN /\ main_pc' = "aborted"
               /\ failed' = failed \cup {"buildings"}
               /\ osm_data' = osm_data
          ELSE /\ main_pc' = "download_towers"
               /\ osm_data' = (IF outcome = "data" THEN SampleBuildings ELSE <<>>)
               /\ failed' = failed
    /\ UNCHANGED <<buildings, tower_data, report_heights, coverage>>
    /\ UNCHANGED <<csv_vars, heights_vars>>

\* tower_data = download_tower_data(CITY_NAME)
DownloadTowerData ==
    /\ main_pc = "download_towers"
    /\ \E resp \in [Range(QueryNames) -> Outcomes] :
          /\ tower_data' = download_tower_data(resp)
          /\ failed' = failed \cup
                UNION {Raised(tower_tags[g], resp) : g \in 1..Len(tower_tags)}
    /\ main_pc' = "extract"
    /\ UNCHANGED <<osm_data, buildings, report_heights, coverage>>
    /\ UNCHANGED <<csv_vars, heights_vars>>

\* tower_heights = extract_tower_heights(tower_data), then the report and the
\* map, or the advice printed when the list is empty.
ExtractAndReport ==
    /\ main_pc = "extract"
    /\ report_heights' = extract_tower_heights(tower_data)
    /\ main_pc' = "layers"
    /\ UNCHANGED <<osm_data, buildings, tower_data, coverage, failed>>
    /\ UNCHANGED <<csv_vars, heights_vars>>

\* dem, population and sat_image are None (the placeholders never raise);
\* buildings = extract_buildings(osm_data); coverage = predict_coverage(...);
\* plot_coverage_map(...).
PredictCoverage ==
    /\ main_pc = "layers"
    /\ buildings' = extract_buildings(osm_data)
    /\ coverage' = predict_coverage(center_lat, center_lon, 30, 43, 900, PredictGrid)
    /\ main_pc' = "done"
    /\ UNCHANGED <<osm_data, tower_data, report_heights, failed>>
    /\ UNCHANGED <<csv_vars, heights_vars>>

NextMain ==
    DownloadOsmData \/ DownloadTowerData \/ ExtractAndReport \/ PredictCoverage

SpecMain == InitMain /\ [][NextMain]_vars

(***************************************************************************)
(* Properties of main, checked under SpecMain.                             *)
(***************************************************************************)
\* C7: whichever acquisition steps fail, main is not aborted: once it has
\* stopped, predict_coverage has run and the coverage is computed.
C7_AcquisitionFailureNotFatal ==
    /\ main_pc # "aborted"
    /\ (failed # {} /\ main_pc = "done") => coverage # NoCoverage

====
